---- MODULE Spec2Model ----
(***************************************************************************)
(* State machine of the live voice session of src/App.tsx: the React       *)
(* state and refs of the App component, the startSession / stopSession     *)
(* handlers, the transport callbacks (onopen, onmessage, onerror, onclose) *)
(* and the teardown routine cleanupAudio.  JavaScript runs every handler   *)
(* to its next await without interleaving, so each action is one such run. *)
(***************************************************************************)
EXTENDS Integers, Sequences, FiniteSets, TLC

\* ---------------------------------------------------------------- bounds
MaxSessions == 1   \* startSession invocations followed (one more in SpecRestart)
MaxAudio == 2      \* audio-carrying messages followed
MaxClock == 1      \* ticks of an output context's currentTime
MaxDur == 1        \* largest decoded buffer duration
MaxText == 3       \* tokens of a model text given to the classifier (SpecScan)
MaxTurnText == 1   \* tokens held by one transcript accumulator (SpecTurns)
MaxTurns == 2      \* Message pairs appended to the conversation log
MaxNow == 1        \* ticks of Date.now()

NULL == 0

Sessions == 1..(MaxSessions + 1)
Durations == 1..MaxDur

\* SessionStatus of src/types.ts
IDLE == "IDLE"
CONNECTING == "CONNECTING"
ACTIVE == "ACTIVE"
ERROR == "ERROR"
SessionStatus == {IDLE, CONNECTING, ACTIVE, ERROR}

VARIABLES
    status,                 \* useState<SessionStatus>
    isLanding,              \* useState<boolean>: the landing page is shown
    inputAudioContextRef,   \* NULL or the id of the input AudioContext
    outputAudioContextRef,  \* NULL or the id of the output AudioContext
    scriptProcessorRef,     \* NULL or the id of the ScriptProcessorNode
    nextStartTimeRef,       \* the scheduling clock
    sourcesRef,             \* the set of tracked AudioBufferSourceNodes
    sessionPromiseRef,      \* NULL or the session whose connect() promise is held
    nSessions,              \* startSession invocations so far
    phase,                  \* where each startSession invocation and its transport
                            \* stand: "none", "devices" (lines 122-125), "media" (the
                            \* await of line 127), "connecting", "open", "closing"
                            \* (close() called), "errored" (onerror delivered, onclose
                            \* to come), "ended" (no callback can run any more)
    closeReq,               \* sessions with a pending .then(session => session.close())
    inputOpen,              \* input AudioContexts that are open (not closed)
    outputOpen,             \* output AudioContexts that are open (not closed)
    currentTime,            \* currentTime of each output AudioContext
    nAudio,                 \* audio messages received so far
    inflight,               \* onmessage handlers suspended at await decodeAudioData
    scheduled,              \* history: buffers started since the last flush
    lastOp,                 \* history: the handler that ran last, when it is one
                            \* that tears down ("catch", "onerror", "onclose",
                            \* "stop") or a rejection of connect() ("reject"),
                            \* "other" otherwise
    stopStreak,             \* history: stopSession calls in a row, up to 2
    threw,                  \* history: the handler that ran last raised
    currentUserTextRef,     \* the user transcript accumulator, a token sequence
    currentModelTextRef,    \* the model transcript accumulator
    messages,               \* useState<Message[]>: the conversation log
    transcription,          \* useState<{user, model}>: the live transcript
    latestFeedback,         \* useState<CategorizedFeedback | null>
    now,                    \* Date.now()
    queued                  \* NULL or the processor with an audioprocess event
                            \* queued for dispatch

vars == <<status, isLanding, inputAudioContextRef, outputAudioContextRef,
          scriptProcessorRef, nextStartTimeRef, sourcesRef, sessionPromiseRef,
          nSessions, phase, closeReq, inputOpen, outputOpen,
          currentTime, nAudio, inflight, scheduled, lastOp, stopStreak, threw,
          currentUserTextRef, currentModelTextRef, messages, transcription,
          latestFeedback, now, queued>>

\* The transcript side of the state, which the session handlers leave alone.
textVars == <<currentUserTextRef, currentModelTextRef, messages, transcription,
              latestFeedback, now>>

\* The capture event queue, which only the capture handlers touch.
sideVars == <<queued>>

\* Math.max replaced by its second argument: the clock is set to the device
\* time instead of being raised to it.
MaxTakesClock(a, b) == b

\* Math.max of line 163.
Max(a, b) == IF a >= b THEN a ELSE b

\* The currentTime of a context is readable through the output ref or through
\* a suspended handler that captured the context; the clock of a context
\* nothing can read any more is dropped from the state.
NormClock(ct, outRef, handlers) ==
    [c \in Sessions |->
        IF c = outRef \/ (\E h \in handlers : h.ctx = c) THEN ct[c] ELSE 0]

\* ------------------------------------------------------------ transcripts
\* Transcript text is a sequence of tokens.  Three tokens are the tag markers
\* (in any letter case: the regular expressions carry the i flag), one is a
\* '[' that opens no marker, one a line break, one a blank, one a word.
GRAMMAR == "[Grammar]"
PRONUNCIATION == "[Pronunciation]"
NATURAL == "[Natural Phrasing]"
BRACKET == "["
NEWLINE == "\n"
SPACE == " "
WORD == "w"
Markers == {GRAMMAR, PRONUNCIATION, NATURAL}
Alphabet == Markers \cup {BRACKET, NEWLINE, SPACE, WORD}

\* The text "..." of lines 205-206.
PLACEHOLDER == <<"...">>

\* latestFeedback = null.
NoFeedback == [category |-> "none", text |-> << >>]

SetMin(S) == CHOOSE x \in S : \A y \in S : x <= y
SetMax(S) == CHOOSE x \in S : \A y \in S : x >= y

\* Where the lazy group (.*?) begun after position i has to end: the first
\* later token that starts with '[' (the lookahead \[) or that '.' does not
\* match (a line break), else the end of the text.
StopAt(t, i) ==
    LET J == {j \in (i + 1)..Len(t) : t[j] \in Markers \cup {BRACKET, NEWLINE}}
    IN  IF J = {} THEN Len(t) + 1 ELSE SetMin(J)

\* /\[marker\](.*?)(?=\[|$)/ matches at position i: the marker is there and
\* the group ends before a '[' or at the end of the text, not at a line break
\* ($ without the m flag is the end of the text only).
MatchesAt(t, i, mk) ==
    /\ t[i] = mk
    /\ StopAt(t, i) = Len(t) + 1 \/ t[StopAt(t, i)] # NEWLINE

\* String.prototype.match with one of the expressions of lines 185-187: the
\* leftmost position where the expression matches, and its group 1.
RegexMatch(t, mk) ==
    LET I == {i \in 1..Len(t) : MatchesAt(t, i, mk)}
    IN  IF I = {} THEN [found |-> FALSE, group |-> << >>]
        ELSE [found |-> TRUE,
              group |-> SubSeq(t, SetMin(I) + 1, StopAt(t, SetMin(I)) - 1)]

\* String.prototype.trim.
Trim(s) ==
    LET K == {k \in 1..Len(s) : s[k] \notin {SPACE, NEWLINE}}
    IN  IF K = {} THEN << >> ELSE SubSeq(s, SetMin(K), SetMax(K))

\* A classifier that falls back to category General when nothing matches.
ClassifyOrGeneral(t) ==
    LET grammarMatch == RegexMatch(t, GRAMMAR)
        pronunciationMatch == RegexMatch(t, PRONUNCIATION)
        naturalMatch == RegexMatch(t, NATURAL)
    IN  IF grammarMatch.found
        THEN [category |-> "Grammar", text |-> Trim(grammarMatch.group)]
        ELSE IF pronunciationMatch.found
        THEN [category |-> "Pronunciation", text |-> Trim(pronunciationMatch.group)]
        ELSE IF naturalMatch.found
        THEN [category |-> "Natural Phrasing", text |-> Trim(naturalMatch.group)]
        ELSE [category |-> "General", text |-> Trim(t)]

\* Lines 184-195: the feedback the classifier sets for the full model text,
\* NoFeedback when no expression matches and setLatestFeedback is not called.
Classify(t) ==
    LET grammarMatch == RegexMatch(t, GRAMMAR)
        pronunciationMatch == RegexMatch(t, PRONUNCIATION)
        naturalMatch == RegexMatch(t, NATURAL)
    IN  IF grammarMatch.found
        THEN [category |-> "Grammar", text |-> Trim(grammarMatch.group)]
        ELSE IF pronunciationMatch.found
        THEN [category |-> "Pronunciation", text |-> Trim(pronunciationMatch.group)]
        ELSE IF naturalMatch.found
        THEN [category |-> "Natural Phrasing", text |-> Trim(naturalMatch.group)]
        ELSE NoFeedback

\* A turn-complete that appends only when both accumulators hold text.
EmitsBoth(uText, mText) == uText # << >> /\ mText # << >>

\* A turn-complete that appends whatever the accumulators hold.
EmitsAlways(uText, mText) == TRUE

\* Line 202: uText || mText.
Emits(uText, mText) == uText # << >> \/ mText # << >>

\* The server messages followed.  A delta is one token; an empty sequence
\* stands for a message without that transcription.
AudioMessages ==
    [audio : BOOLEAN, user : {<< >>}, model : {<< >>},
     turnComplete : {FALSE}, interrupted : BOOLEAN]
TurnMessages ==
    [audio : {FALSE}, user : {<< >>, <<WORD>>}, model : {<< >>, <<GRAMMAR>>},
     turnComplete : BOOLEAN, interrupted : {FALSE}]
VoiceMessages ==
    TurnMessages
    \cup [audio : {TRUE}, user : {<<WORD>>}, model : {<< >>},
          turnComplete : {FALSE}, interrupted : {FALSE}]
\* Audio and interruptions that come in separate messages.
BargeMessages ==
    {m \in AudioMessages : ~(m.audio /\ m.interrupted)}
FeedbackMessages ==
    [audio : {FALSE}, user : {<< >>},
     model : {<< >>, <<WORD>>, <<GRAMMAR>>},
     turnComplete : BOOLEAN, interrupted : {FALSE}]
ScanMessages ==
    [audio : {FALSE}, user : {<< >>}, model : {<<a>> : a \in Alphabet},
     turnComplete : {FALSE}, interrupted : {FALSE}]

\* ------------------------------------------------------------- resources
\* The refs and devices cleanupAudio works on, as one record.
Res ==
    [inRef |-> inputAudioContextRef, outRef |-> outputAudioContextRef,
     proc |-> scriptProcessorRef, sources |-> sourcesRef,
     nextStart |-> nextStartTimeRef, inOpen |-> inputOpen,
     outOpen |-> outputOpen, threw |-> FALSE]

SetRes(r) ==
    /\ inputAudioContextRef' = r.inRef
    /\ outputAudioContextRef' = r.outRef
    /\ scriptProcessorRef' = r.proc
    /\ sourcesRef' = r.sources
    /\ nextStartTimeRef' = r.nextStart
    /\ inputOpen' = r.inOpen
    /\ outputOpen' = r.outOpen

\* cleanupAudio with its null checks dropped: a null ref raises a TypeError
\* at the first dereference and nothing after it runs.
cleanupAudioUnguarded(r) ==
    IF r.proc = NULL \/ r.inRef = NULL \/ r.outRef = NULL
    THEN [r EXCEPT !.threw = TRUE]
    ELSE [r EXCEPT !.inOpen = @ \ {r.inRef}, !.outOpen = @ \ {r.outRef},
                   !.sources = {}, !.inRef = NULL, !.outRef = NULL,
                   !.proc = NULL, !.nextStart = 0]

\* cleanupAudio that forgets to reset the scheduling clock.
cleanupAudioKeepsClock(r) ==
    [r EXCEPT !.inOpen = @ \ {r.inRef}, !.outOpen = @ \ {r.outRef},
              !.sources = {}, !.inRef = NULL, !.outRef = NULL, !.proc = NULL]

\* cleanupAudio (App.tsx 54-66): disconnect the processor and close both
\* contexts when their refs are set, stop every tracked source (errors
\* swallowed), clear the set, null the refs, reset the clock.  disconnect()
\* and close() do not raise, so the routine never does.
cleanupAudio(r) ==
    [r EXCEPT !.inOpen = IF r.inRef # NULL THEN @ \ {r.inRef} ELSE @,
              !.outOpen = IF r.outRef # NULL THEN @ \ {r.outRef} ELSE @,
              !.sources = {},
              !.inRef = NULL,
              !.outRef = NULL,
              !.proc = NULL,
              !.nextStart = 0]

Released ==
    /\ inputAudioContextRef = NULL
    /\ outputAudioContextRef = NULL
    /\ scriptProcessorRef = NULL
    /\ sourcesRef = {}
    /\ nextStartTimeRef = 0

\* ------------------------------------------------------------------ init
Init ==
    /\ status = IDLE
    /\ isLanding = TRUE
    /\ inputAudioContextRef = NULL
    /\ outputAudioContextRef = NULL
    /\ scriptProcessorRef = NULL
    /\ nextStartTimeRef = 0
    /\ sourcesRef = {}
    /\ sessionPromiseRef = NULL
    /\ nSessions = 0
    /\ phase = [s \in Sessions |-> "none"]
    /\ closeReq = {}
    /\ inputOpen = {}
    /\ outputOpen = {}
    /\ currentTime = [s \in Sessions |-> 0]
    /\ nAudio = 0
    /\ inflight = {}
    /\ scheduled = << >>
    /\ lastOp = "other"
    /\ stopStreak = 0
    /\ threw = FALSE
    /\ currentUserTextRef = << >>
    /\ currentModelTextRef = << >>
    /\ messages = << >>
    /\ transcription = [user |-> << >>, model |-> << >>]
    /\ latestFeedback = NoFeedback
    /\ now = 0
    /\ queued = NULL

\* A startSession run is between its setStatus(CONNECTING) and its first await.
Busy == \E s \in Sessions : phase[s] = "devices"

\* History bookkeeping shared by every handler.
Hist(op, raised) ==
    /\ lastOp' = op
    /\ threw' = raised
    /\ stopStreak' = IF op = "stop" THEN (IF stopStreak >= 1 THEN 2 ELSE 1) ELSE 0

\* --------------------------------------------------------- startSession
\* startSession, lines 118-121: no check of the current status; the landing
\* flag is cleared and the status set to CONNECTING.
startSession ==
    /\ ~Busy
    /\ nSessions + 1 \in Sessions
    /\ nSessions' = nSessions + 1
    /\ phase' = [phase EXCEPT ![nSessions + 1] = "devices"]
    /\ isLanding' = FALSE
    /\ status' = CONNECTING
    /\ Hist("other", FALSE)
    /\ UNCHANGED <<textVars, sideVars>>
    /\ UNCHANGED <<inputAudioContextRef, outputAudioContextRef, scriptProcessorRef,
                   nextStartTimeRef, sourcesRef, sessionPromiseRef,
                   closeReq, inputOpen, outputOpen, currentTime, nAudio, inflight,
                   scheduled>>

\* The catch block of startSession, lines 234-238, entered from resources r.
StartFailed(s, r) ==
    LET c == cleanupAudio(r) IN
    /\ status' = ERROR
    /\ SetRes(c)
    /\ phase' = [phase EXCEPT ![s] = "ended"]
    /\ scheduled' = IF c.threw THEN scheduled ELSE << >>
    /\ currentTime' = NormClock(currentTime, c.outRef, inflight)
    /\ Hist("catch", c.threw)
    /\ UNCHANGED <<textVars, sideVars>>
    /\ UNCHANGED <<isLanding, sessionPromiseRef, nSessions, closeReq,
                   nAudio, inflight>>

\* startSession, lines 122-127, up to the await of getUserMedia.  fail says
\* which constructor raises: "early" (GoogleGenAI or the input AudioContext,
\* before any ref is written), "output" (the output AudioContext, after the
\* input ref is written) or "none".
OpenDevices(s, fail) ==
    /\ phase[s] = "devices"
    /\ CASE fail = "early" -> StartFailed(s, Res)
         [] fail = "output" ->
                StartFailed(s, [Res EXCEPT !.inRef = s, !.inOpen = @ \cup {s}])
         [] OTHER ->
                /\ SetRes([Res EXCEPT !.inRef = s, !.outRef = s,
                                      !.inOpen = @ \cup {s}, !.outOpen = @ \cup {s}])
                /\ phase' = [phase EXCEPT ![s] = "media"]
                /\ currentTime' = NormClock(currentTime, s, inflight)
                /\ Hist("other", FALSE)
                /\ UNCHANGED <<textVars, sideVars>>
                /\ UNCHANGED <<status, isLanding, sessionPromiseRef, nSessions,
                               closeReq, nAudio, inflight, scheduled>>

\* getUserMedia resolves: lines 129-233 run, the connect() promise is stored
\* without being awaited.
GetUserMediaResolved(s) ==
    /\ ~Busy
    /\ phase[s] = "media"
    /\ phase' = [phase EXCEPT ![s] = "connecting"]
    /\ sessionPromiseRef' = s
    /\ Hist("other", FALSE)
    /\ UNCHANGED <<textVars, sideVars>>
    /\ UNCHANGED <<status, isLanding, inputAudioContextRef, outputAudioContextRef,
                   scriptProcessorRef, nextStartTimeRef, sourcesRef, nSessions,
                   closeReq, inputOpen, outputOpen, currentTime, nAudio, inflight,
                   scheduled>>

\* getUserMedia rejects (permission denied): the await raises inside the try.
GetUserMediaRejected(s) ==
    /\ ~Busy
    /\ phase[s] = "media"
    /\ StartFailed(s, Res)

\* The promise returned by ai.live.connect rejects.  Line 129 stores the
\* promise and nothing awaits it inside the try, so no handler runs.
ConnectRejected(s) ==
    /\ ~Busy
    /\ phase[s] = "connecting"
    /\ phase' = [phase EXCEPT ![s] = "ended"]
    /\ closeReq' = closeReq \ {s}
    /\ Hist("reject", FALSE)
    /\ UNCHANGED <<textVars, sideVars>>
    /\ UNCHANGED <<status, isLanding, inputAudioContextRef, outputAudioContextRef,
                   scriptProcessorRef, nextStartTimeRef, sourcesRef,
                   sessionPromiseRef, nSessions, inputOpen, outputOpen,
                   currentTime, nAudio, inflight, scheduled>>

\* ----------------------------------------------------------- callbacks
\* onopen, lines 141-158.  The status is set first; the dereference of
\* inputAudioContextRef.current raises when the ref is null.  A pending
\* close request runs once the connect() promise resolves; whether it
\* resolves after an onopen that raised is the transport's choice.
onopen(s) ==
    /\ ~Busy
    /\ phase[s] = "connecting"
    /\ status' = ACTIVE
    /\ IF inputAudioContextRef # NULL
       THEN /\ scriptProcessorRef' = s
            /\ phase' = [phase EXCEPT
                                ![s] = IF s \in closeReq THEN "closing" ELSE "open"]
            /\ Hist("other", FALSE)
       ELSE /\ scriptProcessorRef' = scriptProcessorRef
            /\ \E t \in (IF s \in closeReq THEN {"open", "closing"} ELSE {"open"}) :
                   phase' = [phase EXCEPT ![s] = t]
            /\ Hist("other", TRUE)
    /\ closeReq' = IF phase'[s] = "closing" THEN closeReq \ {s} ELSE closeReq
    /\ UNCHANGED <<textVars, sideVars>>
    /\ UNCHANGED <<isLanding, inputAudioContextRef, outputAudioContextRef,
                   nextStartTimeRef, sourcesRef, sessionPromiseRef, nSessions,
                   inputOpen, outputOpen, currentTime, nAudio, inflight, scheduled>>

\* onerror with the status of onclose: setStatus(IDLE) in place of ERROR.
onerrorSetsIdle(s) ==
    LET c == cleanupAudio(Res) IN
    /\ ~Busy
    /\ phase[s] \in {"connecting", "open", "closing"}
    /\ phase' = [phase EXCEPT ![s] = "errored"]
    /\ status' = IDLE
    /\ SetRes(c)
    /\ scheduled' = IF c.threw THEN scheduled ELSE << >>
    /\ currentTime' = NormClock(currentTime, c.outRef, inflight)
    /\ Hist("onerror", c.threw)
    /\ UNCHANGED <<textVars, sideVars>>
    /\ UNCHANGED <<isLanding, sessionPromiseRef, nSessions, closeReq,
                   nAudio, inflight>>

\* onerror, lines 223-227.
onerror(s) ==
    LET c == cleanupAudio(Res) IN
    /\ ~Busy
    /\ phase[s] \in {"connecting", "open", "closing"}
    /\ phase' = [phase EXCEPT ![s] = "errored"]
    /\ status' = ERROR
    /\ SetRes(c)
    /\ scheduled' = IF c.threw THEN scheduled ELSE << >>
    /\ currentTime' = NormClock(currentTime, c.outRef, inflight)
    /\ Hist("onerror", c.threw)
    /\ UNCHANGED <<textVars, sideVars>>
    /\ UNCHANGED <<isLanding, sessionPromiseRef, nSessions, closeReq,
                   nAudio, inflight>>

\* onclose, lines 228-231.
onclose(s) ==
    LET c == cleanupAudio(Res) IN
    /\ ~Busy
    /\ phase[s] \in {"connecting", "open", "closing", "errored"}
    /\ phase' = [phase EXCEPT ![s] = "ended"]
    /\ closeReq' = closeReq \ {s}
    /\ status' = IDLE
    /\ SetRes(c)
    /\ scheduled' = IF c.threw THEN scheduled ELSE << >>
    /\ currentTime' = NormClock(currentTime, c.outRef, inflight)
    /\ Hist("onclose", c.threw)
    /\ UNCHANGED <<textVars, sideVars>>
    /\ UNCHANGED <<isLanding, sessionPromiseRef, nSessions, nAudio, inflight>>

\* ----------------------------------------------------------- stopSession
\* stopSession, lines 241-249: close the held session once its promise has
\* resolved, forget the promise, tear down, then set IDLE and show the
\* landing page.  A raise in cleanupAudio skips the two setters.
stopSession ==
    LET c == cleanupAudio(Res)
        s == sessionPromiseRef IN
    /\ ~Busy
    /\ sessionPromiseRef' = NULL
    /\ IF s # NULL /\ phase[s] = "open"
       THEN phase' = [phase EXCEPT ![s] = "closing"]
       ELSE phase' = phase
    /\ IF s # NULL /\ phase[s] = "connecting"
       THEN closeReq' = closeReq \cup {s}
       ELSE closeReq' = closeReq
    /\ SetRes(c)
    /\ scheduled' = IF c.threw THEN scheduled ELSE << >>
    /\ status' = IF c.threw THEN status ELSE IDLE
    /\ isLanding' = IF c.threw THEN isLanding ELSE TRUE
    /\ currentTime' = NormClock(currentTime, c.outRef, inflight)
    /\ Hist("stop", c.threw)
    /\ UNCHANGED <<textVars, sideVars>>
    /\ UNCHANGED <<nSessions, nAudio, inflight>>

\* The start button is rendered only on the landing page (lines 266, 295),
\* the stop button only off it (line 336).
ClickStart == isLanding /\ nSessions < MaxSessions /\ startSession
ClickStop == ~isLanding /\ stopSession
\* The start button with one more session to follow.
ClickRestart == isLanding /\ startSession
\* stop() called directly, whatever page is shown.
CallStop == stopSession

\* ------------------------------------------------------------ onmessage
\* A forEach that stops every source without try/catch: the first raise
\* leaves the set as it is.
StopAllUncaught(srcs, bad) == IF bad = {} THEN {} ELSE srcs

\* Lines 216-219: a forEach that stops every source inside try/catch, then
\* clear(); the sources in bad raise on stop() and the error is swallowed.
StopAll(srcs, bad) == {}

\* The interrupted branch, lines 215-221, on the tracked sources srcs, any
\* of which may raise when stopped.
Flush(srcs) ==
    /\ \E bad \in SUBSET srcs : sourcesRef' = StopAll(srcs, bad)
    /\ nextStartTimeRef' = 0
    /\ scheduled' = << >>

\* Lines 174-221 for the message fields f, entered with the tracked sources
\* srcs, the scheduling clock next and the started buffers sched: the deltas
\* are appended and published, the full model text is classified, a
\* turn-complete appends the Message pair and clears, an interruption flushes.
\* An id is the reading of Date.now() with the role's suffix; the timestamp
\* field of a Message is left out.
Rest(f, srcs, next, sched) ==
    LET uText == currentUserTextRef \o f.user
        mText == currentModelTextRef \o f.model
        fb == Classify(mText)
        emits == f.turnComplete /\ Emits(uText, mText)
    IN  /\ currentUserTextRef' = IF f.turnComplete THEN << >> ELSE uText
        /\ currentModelTextRef' = IF f.turnComplete THEN << >> ELSE mText
        /\ transcription' =
               IF f.turnComplete THEN [user |-> << >>, model |-> << >>]
               ELSE [user |-> IF f.user # << >> THEN uText ELSE transcription.user,
                     model |-> IF f.model # << >> THEN mText ELSE transcription.model]
        /\ latestFeedback' =
               IF f.model # << >> /\ fb # NoFeedback THEN fb ELSE latestFeedback
        /\ messages' =
               IF emits
               THEN messages \o
                    <<[id |-> <<now, "-user">>, role |-> "user",
                       text |-> IF uText # << >> THEN uText ELSE PLACEHOLDER],
                      [id |-> <<now, "-model">>, role |-> "model",
                       text |-> IF mText # << >> THEN mText ELSE PLACEHOLDER]>>
               ELSE messages
        /\ IF f.interrupted
           THEN Flush(srcs)
           ELSE /\ sourcesRef' = srcs
                /\ nextStartTimeRef' = next
                /\ scheduled' = sched
        /\ Hist(IF f.interrupted THEN "interrupted"
                ELSE IF f.turnComplete THEN (IF emits THEN "turn" ELSE "turnEmpty")
                ELSE "other", FALSE)
        /\ now' = now
        /\ queued' = queued

\* onmessage, lines 159-164 and, without audio to decode, 174-221.  With
\* audio and an output context, the context is captured, the clock is raised
\* to the context's currentTime and the handler suspends at the await; the
\* rest of the message is handled when the decode is done.
onmessage(s, m) ==
    /\ ~Busy
    /\ phase[s] = "open"
    /\ m.audio \/ m.interrupted \/ m.turnComplete
           \/ m.user # << >> \/ m.model # << >>
    /\ IF m.audio /\ outputAudioContextRef # NULL
       THEN /\ nAudio < MaxAudio
            /\ nAudio' = nAudio + 1
            /\ nextStartTimeRef' =
                   Max(nextStartTimeRef, currentTime[outputAudioContextRef])
            /\ inflight' = inflight \cup
                   {[seq |-> nAudio + 1, ctx |-> outputAudioContextRef,
                     interrupted |-> m.interrupted, user |-> m.user,
                     model |-> m.model, turnComplete |-> m.turnComplete]}
            /\ Hist("other", FALSE)
            /\ UNCHANGED <<sourcesRef, scheduled>>
            /\ UNCHANGED <<textVars, sideVars>>
       ELSE /\ Rest(m, sourcesRef, nextStartTimeRef, scheduled)
            /\ UNCHANGED <<nAudio, inflight>>
    /\ UNCHANGED <<status, isLanding, inputAudioContextRef, outputAudioContextRef,
                   scriptProcessorRef, sessionPromiseRef, nSessions, phase,
                   closeReq, inputOpen, outputOpen, currentTime>>

\* decodeAudioData (services/audioUtils): an await that may take any time,
\* so the suspended handlers resume in any order; d is the decoded duration.
decodeAudioData(h, d) ==
    /\ h \in inflight
    /\ d \in Durations

\* onmessage resumed, lines 165-171 and then 174-221: the source is started
\* at the scheduling clock as it stands now, on the context captured before
\* the await; the clock advances by the duration; the source is tracked;
\* then the rest of the message is handled.
decoded(h, d) ==
    /\ ~Busy
    /\ decodeAudioData(h, d)
    /\ inflight' = inflight \ {h}
    /\ Rest(h, sourcesRef \cup {h.seq}, nextStartTimeRef + d,
            Append(scheduled, [seq |-> h.seq, start |-> nextStartTimeRef, dur |-> d]))
    /\ currentTime' = NormClock(currentTime, outputAudioContextRef, inflight \ {h})
    /\ UNCHANGED <<status, isLanding, inputAudioContextRef, outputAudioContextRef,
                   scriptProcessorRef, sessionPromiseRef, nSessions, phase,
                   closeReq, inputOpen, outputOpen, nAudio>>

\* resetConversation without setLatestFeedback(null).
resetKeepsFeedback ==
    /\ ~Busy
    /\ ~isLanding
    /\ messages' = << >>
    /\ transcription' = [user |-> << >>, model |-> << >>]
    /\ currentUserTextRef' = << >>
    /\ currentModelTextRef' = << >>
    /\ Hist("reset", FALSE)
    /\ UNCHANGED <<status, isLanding, inputAudioContextRef, outputAudioContextRef,
                   scriptProcessorRef, nextStartTimeRef, sourcesRef,
                   sessionPromiseRef, nSessions, phase, closeReq, inputOpen,
                   outputOpen, currentTime, nAudio, inflight, scheduled, now,
                   latestFeedback, queued>>

\* resetConversation, lines 68-74; its button is on the lesson page (line 329).
resetConversation ==
    /\ ~Busy
    /\ ~isLanding
    /\ messages' = << >>
    /\ transcription' = [user |-> << >>, model |-> << >>]
    /\ latestFeedback' = NoFeedback
    /\ currentUserTextRef' = << >>
    /\ currentModelTextRef' = << >>
    /\ Hist("reset", FALSE)
    /\ UNCHANGED <<status, isLanding, inputAudioContextRef, outputAudioContextRef,
                   scriptProcessorRef, nextStartTimeRef, sourcesRef,
                   sessionPromiseRef, nSessions, phase, closeReq, inputOpen,
                   outputOpen, currentTime, nAudio, inflight, scheduled, now,
                   queued>>

\* Date.now() advances.
TickNow ==
    /\ ~Busy
    /\ now < MaxNow
    /\ now' = now + 1
    /\ UNCHANGED <<status, isLanding, inputAudioContextRef, outputAudioContextRef,
                   scriptProcessorRef, nextStartTimeRef, sourcesRef,
                   sessionPromiseRef, nSessions, phase, closeReq, inputOpen,
                   outputOpen, currentTime, nAudio, inflight, scheduled, lastOp,
                   stopStreak, threw, currentUserTextRef, currentModelTextRef,
                   messages, transcription, latestFeedback, queued>>

\* The 'ended' listener of a source, line 168.
ended(src) ==
    /\ ~Busy
    /\ src \in sourcesRef
    /\ sourcesRef' = sourcesRef \ {src}
    /\ Hist("other", FALSE)
    /\ UNCHANGED <<textVars, sideVars>>
    /\ UNCHANGED <<status, isLanding, inputAudioContextRef, outputAudioContextRef,
                   scriptProcessorRef, nextStartTimeRef, sessionPromiseRef,
                   nSessions, phase, closeReq, inputOpen, outputOpen,
                   currentTime, nAudio, inflight, scheduled>>

\* The input device has a frame for the attached processor: an audioprocess
\* event is queued as a task, so it is dispatched after whatever handler
\* runs first.
audioprocess(p) ==
    /\ ~Busy
    /\ p # NULL
    /\ p = scriptProcessorRef
    /\ queued = NULL
    /\ queued' = p
    /\ UNCHANGED <<status, isLanding, inputAudioContextRef, outputAudioContextRef,
                   scriptProcessorRef, nextStartTimeRef, sourcesRef,
                   sessionPromiseRef, nSessions, phase, closeReq, inputOpen,
                   outputOpen, currentTime, nAudio, inflight, scheduled, lastOp,
                   stopStreak, threw>>
    /\ UNCHANGED textVars

\* onaudioprocess, lines 146-154: when sessionPromiseRef holds a promise the
\* frame is encoded and submitted with sendRealtimeInput.
onaudioprocess ==
    /\ ~Busy
    /\ queued # NULL
    /\ queued' = NULL
    /\ Hist(IF sessionPromiseRef # NULL THEN "send" ELSE "other", FALSE)
    /\ UNCHANGED <<status, isLanding, inputAudioContextRef, outputAudioContextRef,
                   scriptProcessorRef, nextStartTimeRef, sourcesRef,
                   sessionPromiseRef, nSessions, phase, closeReq, inputOpen,
                   outputOpen, currentTime, nAudio, inflight, scheduled>>
    /\ UNCHANGED textVars

\* The output device's clock advances while a context is open.
Tick(c) ==
    /\ ~Busy
    /\ c \in outputOpen
    /\ c = outputAudioContextRef \/ (\E h \in inflight : h.ctx = c)
    /\ currentTime[c] < MaxClock
    /\ currentTime' = [currentTime EXCEPT ![c] = @ + 1]
    /\ UNCHANGED <<textVars, sideVars>>
    /\ UNCHANGED <<status, isLanding, inputAudioContextRef, outputAudioContextRef,
                   scriptProcessorRef, nextStartTimeRef, sourcesRef,
                   sessionPromiseRef, nSessions, phase, closeReq,
                   inputOpen, outputOpen, nAudio, inflight, scheduled, lastOp,
                   stopStreak, threw>>

\* ------------------------------------------------------- specifications
\* What the transport, the devices and the clock do, whoever starts and stops.
Next ==
    \/ ClickStart
    \/ ClickStop
    \/ \E s \in Sessions, f \in {"none", "early", "output"} : OpenDevices(s, f)
    \/ \E s \in Sessions : GetUserMediaResolved(s)
    \/ \E s \in Sessions : GetUserMediaRejected(s)
    \/ \E s \in Sessions : ConnectRejected(s)
    \/ \E s \in Sessions : onopen(s)
    \/ \E s \in Sessions : onerror(s)
    \/ \E s \in Sessions : onclose(s)
    \/ \E s \in Sessions, m \in AudioMessages : onmessage(s, m)
    \/ \E h \in inflight, d \in Durations : decoded(h, d)
    \/ \E src \in sourcesRef : ended(src)
    \/ \E c \in Sessions : Tick(c)

\* The program as its pages let it be used, for MaxSessions sessions.
Spec == Init /\ [][Next]_vars

\* What runs without the user: the pending promise settlements and the
\* transport, device and clock events.
SystemNext ==
    \/ \E s \in Sessions, f \in {"none", "early", "output"} : OpenDevices(s, f)
    \/ \E s \in Sessions : GetUserMediaResolved(s)
    \/ \E s \in Sessions : GetUserMediaRejected(s)
    \/ \E s \in Sessions : ConnectRejected(s)
    \/ \E s \in Sessions : onopen(s)
    \/ \E s \in Sessions : onerror(s)
    \/ \E s \in Sessions : onclose(s)
    \/ \E s \in Sessions, m \in AudioMessages : onmessage(s, m)
    \/ \E h \in inflight, d \in Durations : decoded(h, d)
    \/ \E src \in sourcesRef : ended(src)
    \/ \E c \in Sessions : Tick(c)

\* Spec with the event loop's progress: a step that needs no user is taken
\* when one stays possible, and a transport that can close does close.  The
\* user's clicks are under no obligation.
SpecLive ==
    /\ Init /\ [][Next]_vars
    /\ WF_vars(SystemNext)
    /\ \A s \in Sessions : WF_vars(onclose(s))

\* Spec with the microphone frames: the capture events of the attached
\* processor.
NextCapture ==
    \/ Next
    \/ \E p \in Sessions : audioprocess(p)
    \/ onaudioprocess

SpecCapture == Init /\ [][NextCapture]_vars

\* The same with one more session started from the landing page.
NextRestart ==
    \/ ClickRestart
    \/ ClickStop
    \/ \E s \in Sessions, f \in {"none", "early", "output"} : OpenDevices(s, f)
    \/ \E s \in Sessions : GetUserMediaResolved(s)
    \/ \E s \in Sessions : GetUserMediaRejected(s)
    \/ \E s \in Sessions : ConnectRejected(s)
    \/ \E s \in Sessions : onopen(s)
    \/ \E s \in Sessions : onerror(s)
    \/ \E s \in Sessions : onclose(s)
    \/ \E s \in Sessions, m \in AudioMessages : onmessage(s, m)
    \/ \E h \in inflight, d \in Durations : decoded(h, d)
    \/ \E src \in sourcesRef : ended(src)
    \/ \E c \in Sessions : Tick(c)

SpecRestart == Init /\ [][NextRestart]_vars

\* stopSession called directly, in any state and on any page, as a caller
\* of stop() may: every behaviour of Spec is one of SpecApi.
NextApi ==
    \/ ClickStart
    \/ CallStop
    \/ \E s \in Sessions, f \in {"none", "early", "output"} : OpenDevices(s, f)
    \/ \E s \in Sessions : GetUserMediaResolved(s)
    \/ \E s \in Sessions : GetUserMediaRejected(s)
    \/ \E s \in Sessions : ConnectRejected(s)
    \/ \E s \in Sessions : onopen(s)
    \/ \E s \in Sessions : onerror(s)
    \/ \E s \in Sessions : onclose(s)
    \/ \E s \in Sessions, m \in AudioMessages : onmessage(s, m)
    \/ \E h \in inflight, d \in Durations : decoded(h, d)
    \/ \E src \in sourcesRef : ended(src)
    \/ \E c \in Sessions : Tick(c)

SpecApi == Init /\ [][NextApi]_vars

\* The messages a specification delivers keep the accumulators within cap
\* tokens and the log within MaxTurns pairs, the handlers suspended at a
\* decode counted in.
Room(m, cap) ==
    /\ Len(currentUserTextRef) + Cardinality({h \in inflight : h.user # << >>})
           + Len(m.user) <= cap
    /\ Len(currentModelTextRef) + Cardinality({h \in inflight : h.model # << >>})
           + Len(m.model) <= cap
    /\ m.turnComplete =>
           Len(messages) + 2 * (Cardinality({h \in inflight : h.turnComplete}) + 1)
               <= 2 * MaxTurns

\* One session with its transcripts: messages carry deltas and turn-complete
\* signals and no audio, the conversation can be reset, Date.now() advances.
NextTurns ==
    \/ ClickStart
    \/ \E s \in Sessions : OpenDevices(s, "none")
    \/ \E s \in Sessions : GetUserMediaResolved(s)
    \/ \E s \in Sessions : onopen(s)
    \/ \E s \in Sessions, m \in TurnMessages : Room(m, MaxTurnText) /\ onmessage(s, m)
    \/ resetConversation
    \/ TickNow

SpecTurns == Init /\ [][NextTurns]_vars

\* One session whose messages carry audio too, so that handlers are
\* suspended at a decode while later messages arrive.
NextVoice ==
    \/ ClickStart
    \/ \E s \in Sessions : OpenDevices(s, "none")
    \/ \E s \in Sessions : GetUserMediaResolved(s)
    \/ \E s \in Sessions : onopen(s)
    \/ \E s \in Sessions, m \in VoiceMessages : Room(m, MaxTurnText) /\ onmessage(s, m)
    \/ \E h \in inflight, d \in Durations : decoded(h, d)
    \/ resetConversation

SpecVoice == Init /\ [][NextVoice]_vars

\* One session whose model transcript runs over several turns, with and
\* without markers.
NextFeedback ==
    \/ ClickStart
    \/ \E s \in Sessions : OpenDevices(s, "none")
    \/ \E s \in Sessions : GetUserMediaResolved(s)
    \/ \E s \in Sessions : onopen(s)
    \/ \E s \in Sessions, m \in FeedbackMessages :
           Room(m, MaxTurnText + 1) /\ onmessage(s, m)

SpecFeedback == Init /\ [][NextFeedback]_vars

\* The classifier on every model text of up to MaxText tokens, built delta
\* by delta in an open session.
NextScan ==
    \/ ClickStart
    \/ \E s \in Sessions : OpenDevices(s, "none")
    \/ \E s \in Sessions : GetUserMediaResolved(s)
    \/ \E s \in Sessions : onopen(s)
    \/ \E s \in Sessions, m \in ScanMessages : Room(m, MaxText) /\ onmessage(s, m)

SpecScan == Init /\ [][NextScan]_vars

\* One session in which an interruption never shares its message with audio,
\* so that every interruption is handled as it is delivered.
NextBarge ==
    \/ ClickStart
    \/ ClickStop
    \/ \E s \in Sessions : OpenDevices(s, "none")
    \/ \E s \in Sessions : GetUserMediaResolved(s)
    \/ \E s \in Sessions : onopen(s)
    \/ \E s \in Sessions, m \in BargeMessages : onmessage(s, m)
    \/ \E h \in inflight, d \in Durations : decoded(h, d)
    \/ \E src \in sourcesRef : ended(src)
    \/ \E c \in Sessions : Tick(c)

SpecBarge == Init /\ [][NextBarge]_vars

\* Sessions with transcripts, ended by the stop button or by the transport
\* and followed by another session.
NextCarry ==
    \/ ClickRestart
    \/ ClickStop
    \/ \E s \in Sessions : OpenDevices(s, "none")
    \/ \E s \in Sessions : GetUserMediaResolved(s)
    \/ \E s \in Sessions : onopen(s)
    \/ \E s \in Sessions : onclose(s)
    \/ \E s \in Sessions, m \in TurnMessages :
           Room(m, MaxTurnText) /\ onmessage(s, m)

SpecCarry == Init /\ [][NextCarry]_vars

TypeOK ==
    /\ status \in SessionStatus
    /\ isLanding \in BOOLEAN
    /\ inputAudioContextRef \in {NULL} \cup Sessions
    /\ outputAudioContextRef \in {NULL} \cup Sessions
    /\ scriptProcessorRef \in {NULL} \cup Sessions
    /\ nextStartTimeRef \in 0..(MaxClock + MaxAudio * MaxDur)
    /\ sourcesRef \subseteq 1..MaxAudio
    /\ sessionPromiseRef \in {NULL} \cup Sessions
    /\ nSessions \in 0..(MaxSessions + 1)
    /\ closeReq \subseteq Sessions
    /\ inputOpen \subseteq Sessions
    /\ outputOpen \subseteq Sessions
    /\ nAudio \in 0..MaxAudio
    /\ Len(scheduled) <= MaxAudio
    /\ stopStreak \in 0..2
    /\ threw \in BOOLEAN
    /\ Len(currentUserTextRef) <= MaxText
    /\ Len(currentModelTextRef) <= MaxText
    /\ Len(messages) <= 2 * MaxTurns
    /\ transcription = [user |-> currentUserTextRef, model |-> currentModelTextRef]
    /\ now \in 0..MaxNow
    /\ queued \in {NULL} \cup Sessions

\* ----------------------------------------------------------------- claims
TeardownOps == {"catch", "onerror", "onclose", "stop"}

\* C1: whenever the status is ACTIVE, the output audio context is set and
\* open and a transport session is open.
C1_ActiveImpliesLive ==
    status = ACTIVE =>
        /\ outputAudioContextRef # NULL
        /\ outputAudioContextRef \in outputOpen
        /\ \E s \in Sessions : phase[s] = "open"

\* C2: a start() while the status is ACTIVE is rejected: no step leaves
\* ACTIVE for CONNECTING or starts another session.
C2_StartRejectedWhileActive ==
    [][status = ACTIVE => (status' # CONNECTING /\ nSessions' = nSessions)]_vars

\* C3: after any failure of the start sequence (a constructor raising,
\* getUserMedia rejecting, the transport open rejecting) the status is ERROR
\* and the teardown has been done.
C3_StartFailureEndsInError ==
    lastOp \in {"catch", "reject"} => (status = ERROR /\ Released)

\* C4: no step takes the status from IDLE straight to ACTIVE or to ERROR.
C4_NoEdgeFromIdle ==
    [][~(status = IDLE /\ status' \in {ACTIVE, ERROR})]_vars

\* C5: after two stop() calls in a row nothing was raised, the status is
\* IDLE and every audio resource is released.
C5_StopTwice ==
    stopStreak = 2 => (~threw /\ status = IDLE /\ Released)

\* Two stops in a row, the first of them with the transport open.
C5_Witness ==
    stopStreak = 2 /\ \E s \in Sessions : phase[s] = "closing"

\* C6: from every resource state the program reaches, teardown does not
\* raise and leaves both context refs and the capture node null, the source
\* set empty and the clock 0, and a second teardown changes nothing; and
\* every handler that tears down leaves the resources so.
C6_TeardownIdempotent ==
    LET c == cleanupAudio(Res) IN
    /\ ~c.threw
    /\ c.inRef = NULL /\ c.outRef = NULL /\ c.proc = NULL
    /\ c.sources = {} /\ c.nextStart = 0
    /\ cleanupAudio(c) = c
    /\ lastOp \in TeardownOps => (Released /\ ~threw)

\* A teardown by onclose after stop() has already torn down (the landing
\* page is shown), in a session that received audio and has no decode left.
C6_Witness ==
    /\ lastOp = "onclose"
    /\ isLanding
    /\ nSessions >= 1
    /\ nAudio >= 1
    /\ inflight = {}

\* C7: after an onerror callback the status is ERROR, after an onclose
\* callback it is IDLE, and in both cases the teardown has been done and
\* nothing was raised, whenever the callback arrives.
C7_TransportCallbacks ==
    /\ lastOp = "onerror" => (status = ERROR /\ Released /\ ~threw)
    /\ lastOp = "onclose" => (status = IDLE /\ Released /\ ~threw)

\* An onerror callback delivered after stop() (the landing page is shown).
C7_Witness ==
    lastOp = "onerror" /\ isLanding /\ nSessions >= 1

\* C8: of two buffers started one after the other without a flush between
\* them, the second starts no earlier than the first ends.
C8_NoOverlap ==
    \A i \in 1..(Len(scheduled) - 1) :
        scheduled[i + 1].start >= scheduled[i].start + scheduled[i].dur

\* Two buffers started, the one received second started first.
C8_Witness ==
    /\ Len(scheduled) = 2
    /\ scheduled[1].seq > scheduled[2].seq

\* C9: at the step that starts a buffer, the start time passed is
\* max(nextStart, currentTime) of the buffer's context at that moment.
C9_StartNotBehindClock ==
    [][\A h \in inflight :
          h \notin inflight' =>
              nextStartTimeRef = Max(nextStartTimeRef, currentTime[h.ctx])]_vars

\* C10: buffers are started in the order their messages were received: the
\* one received earlier has the earlier start time.
C10_ReceiptOrder ==
    \A i, j \in 1..Len(scheduled) :
        scheduled[i].seq < scheduled[j].seq =>
            scheduled[i].start < scheduled[j].start

\* C11: right after a message's interruption signal has been handled, no
\* source is tracked and the scheduling clock is 0, whichever sources were
\* tracked and whichever of them raised when stopped.
C11_InterruptionFlushes ==
    lastOp = "interrupted" => (sourcesRef = {} /\ nextStartTimeRef = 0)

\* An interruption handled in a live session after both audio messages were
\* decoded and their buffers started.
C11_Witness ==
    /\ lastOp = "interrupted"
    /\ nAudio = MaxAudio
    /\ inflight = {}
    /\ outputAudioContextRef # NULL
    /\ status = ACTIVE

\* C12: a turn-complete signal is applied only after every transcript delta
\* delivered before it: at the step that applies one, no handler of an
\* earlier message is still suspended with a delta it has not appended.
C12_DeliveryOrder ==
    [][/\ (\E s \in Sessions, m \in VoiceMessages :
               /\ m.turnComplete
               /\ ~m.audio \/ outputAudioContextRef = NULL
               /\ onmessage(s, m))
           => \A g \in inflight : g.user = << >> /\ g.model = << >>
       /\ \A h \in inflight, d \in Durations :
               (h.turnComplete /\ decoded(h, d))
                   => \A g \in inflight :
                          g.seq < h.seq => (g.user = << >> /\ g.model = << >>)]_vars

\* C13: a decode that completes when the status is IDLE or ERROR has no
\* effect: the step that resumes its handler tracks no source, starts no
\* buffer and leaves the scheduling clock alone.
C13_LateDecodeDiscarded ==
    [][\A h \in inflight :
          (h \notin inflight' /\ status \in {IDLE, ERROR})
              => UNCHANGED <<sourcesRef, nextStartTimeRef, scheduled>>]_vars

\* C14: when a turn-complete signal is handled with text in at least one
\* accumulator (the deltas of the same message appended first), the log grows
\* by exactly two Messages, the user one then the model one, each with its
\* accumulator's text or the placeholder; afterwards both accumulators and
\* the live transcript are empty.
C14_TurnCompleteEmitsPair ==
    [][\A s \in Sessions, m \in TurnMessages :
          LET uText == currentUserTextRef \o m.user
              mText == currentModelTextRef \o m.model
              n == Len(messages)
          IN  (m.turnComplete /\ onmessage(s, m)
                   /\ (uText # << >> \/ mText # << >>))
              => /\ Len(messages') = n + 2
                 /\ SubSeq(messages', 1, n) = messages
                 /\ messages'[n + 1].role = "user"
                 /\ messages'[n + 1].text =
                        (IF uText = << >> THEN PLACEHOLDER ELSE uText)
                 /\ messages'[n + 2].role = "model"
                 /\ messages'[n + 2].text =
                        (IF mText = << >> THEN PLACEHOLDER ELSE mText)
                 /\ currentUserTextRef' = << >>
                 /\ currentModelTextRef' = << >>
                 /\ transcription' = [user |-> << >>, model |-> << >>]]_vars

\* A pair appended by a turn-complete handled with the user accumulator
\* empty and the model accumulator not.
C14_Witness ==
    /\ lastOp = "turn"
    /\ Len(messages) = 2
    /\ messages[1].text = PLACEHOLDER
    /\ messages[2].text = <<GRAMMAR>>
    /\ currentUserTextRef = << >>
    /\ currentModelTextRef = << >>

\* C15: a turn-complete signal handled with both accumulators empty leaves
\* the conversation log as it is.
C15_EmptyTurnEmitsNothing ==
    [][\A s \in Sessions, m \in TurnMessages :
          (m.turnComplete /\ onmessage(s, m)
               /\ currentUserTextRef \o m.user = << >>
               /\ currentModelTextRef \o m.model = << >>)
          => messages' = messages]_vars

\* A turn-complete handled with both accumulators empty, after an earlier
\* one appended a pair.
C15_Witness ==
    lastOp = "turnEmpty" /\ Len(messages) = 2

\* C17: no two Messages of the conversation log have the same id.
C17_UniqueIds ==
    \A i, j \in 1..Len(messages) :
        i # j => messages[i].id # messages[j].id

\* C18: a reset leaves the log, both accumulators and the live transcript
\* empty and no latest feedback, and does not change the status, the set of
\* tracked sources or the scheduling clock.
C18_ResetFrame ==
    [][lastOp' = "reset" =>
          /\ messages' = << >>
          /\ currentUserTextRef' = << >>
          /\ currentModelTextRef' = << >>
          /\ transcription' = [user |-> << >>, model |-> << >>]
          /\ latestFeedback' = NoFeedback
          /\ UNCHANGED <<status, sourcesRef, nextStartTimeRef>>]_vars

\* A reset in an active session with a source tracked, the clock advanced
\* and a handler still suspended at a decode.
C18_Witness ==
    /\ lastOp = "reset"
    /\ status = ACTIVE
    /\ sourcesRef # {}
    /\ nextStartTimeRef > 0
    /\ inflight # {}

\* C19: whenever the status is ERROR it later becomes IDLE, the user doing
\* nothing.
C19_ErrorConvergesToIdle ==
    (status = ERROR) ~> (status = IDLE)

\* The markers that occur in text t, and the category of the one that comes
\* first in the order Grammar > Pronunciation > Natural Phrasing.
MarkersIn(t) == {t[i] : i \in 1..Len(t)} \cap Markers
CategoryOf(mk) ==
    IF mk = GRAMMAR THEN "Grammar"
    ELSE IF mk = PRONUNCIATION THEN "Pronunciation" ELSE "Natural Phrasing"
HighestMarker(t) ==
    IF GRAMMAR \in MarkersIn(t) THEN GRAMMAR
    ELSE IF PRONUNCIATION \in MarkersIn(t) THEN PRONUNCIATION ELSE NATURAL

\* C16: when the model transcript holds several different markers, the
\* category of the feedback is that of the highest-priority marker present,
\* wherever the markers stand.
C16_PriorityNotPosition ==
    Cardinality(MarkersIn(currentModelTextRef)) >= 2 =>
        latestFeedback.category = CategoryOf(HighestMarker(currentModelTextRef))

\* The text from just after the first occurrence of marker mk in t up to the
\* next marker or the end of t, trimmed.
CaptureToNextMarker(t, mk) ==
    LET i == SetMin({k \in 1..Len(t) : t[k] = mk})
        J == {j \in (i + 1)..Len(t) : t[j] \in Markers}
    IN  Trim(SubSeq(t, i + 1, (IF J = {} THEN Len(t) + 1 ELSE SetMin(J)) - 1))

\* C20: the feedback text is the text that follows the selected marker up to
\* the next marker or the end of the transcript, trimmed: a '[' that opens
\* no marker and a line break are part of it.
C20_CaptureUpToNextMarker ==
    MarkersIn(currentModelTextRef) # {} =>
        \E mk \in MarkersIn(currentModelTextRef) :
            /\ latestFeedback.category = CategoryOf(mk)
            /\ latestFeedback.text = CaptureToNextMarker(currentModelTextRef, mk)

\* C21: a model-transcript delta after which the model transcript holds no
\* marker leaves the latest feedback and the status as they were.
C21_NoMarkerNoFeedback ==
    [][\A s \in Sessions, m \in FeedbackMessages :
          (m.model # << >> /\ onmessage(s, m)
               /\ MarkersIn(currentModelTextRef \o m.model) = {})
          => (latestFeedback' = latestFeedback /\ status' = status)]_vars

\* A marker-free model transcript with the feedback of an earlier turn
\* still in place.
C21_Witness ==
    /\ currentModelTextRef = <<WORD, WORD>>
    /\ latestFeedback.category = "Grammar"
    /\ status = ACTIVE

\* C22: an encoded chunk is submitted to the transport only while the status
\* is ACTIVE.
C22_SendOnlyWhileActive ==
    lastOp = "send" => status = ACTIVE

\* C23: at every step where startSession moves the status to CONNECTING, the
\* scheduling clock is 0 and no source is tracked, whatever sessions, stops
\* and late decode completions came before.
C23_ClockZeroAtStart ==
    [][(nSessions' # nSessions /\ status' = CONNECTING)
          => (nextStartTimeRef' = 0 /\ sourcesRef' = {})]_vars

\* C24: once a newer session has been started, an onopen, onmessage, onerror
\* or onclose callback of an earlier session changes neither the status, nor
\* the audio devices, nor the accumulators, the tracked sources or the
\* scheduling clock.
C24_StaleCallbacksInert ==
    [][\A s \in Sessions :
          (/\ s < nSessions
           /\ \/ onopen(s) \/ onerror(s) \/ onclose(s)
              \/ \E m \in AudioMessages : onmessage(s, m))
          => UNCHANGED <<status, inputAudioContextRef, outputAudioContextRef,
                         scriptProcessorRef, inputOpen, outputOpen,
                         currentUserTextRef, currentModelTextRef,
                         sourcesRef, nextStartTimeRef>>]_vars

\* C25: once an interruption has been handled, audio delivered before it is
\* not scheduled and not tracked: a handler that was suspended at its decode
\* when the interruption was handled resumes without starting or tracking a
\* source.
C25_BargeInPreempts ==
    [][(lastOp = "interrupted" /\ \E h \in inflight : h \notin inflight')
          => UNCHANGED <<sourcesRef, scheduled>>]_vars

\* C26: both transcript accumulators are empty at every step that starts a
\* session.
C26_AccumulatorsEmptyAtStart ==
    [][nSessions' # nSessions
          => (currentUserTextRef' = << >> /\ currentModelTextRef' = << >>)]_vars

====
